---- MODULE Spec2Model ----
(***************************************************************************)
(* Model of transcode-tune/transcode_tune.py: the experiment coordinator   *)
(* run_experiment, the remote job lifecycle it drives for every task       *)
(* (trigger_transcode, wait_for_output, download_file, analyze_video,      *)
(* check_targets) and the helpers it uses.                                 *)
(***************************************************************************)
EXTENDS Integers, Sequences, FiniteSets, TLC

VARIABLES
    files,          \* exp.files: the input references, in list order
    param_defs,     \* config['params']
    targets,        \* config['targets']
    metrics,        \* config['metrics']
    dry_run,        \* the dry_run argument of run_experiment
    pc,             \* position of the coordinator inside run_experiment
    combinations,   \* result of generate_param_combinations
    total_tasks,    \* len(combinations) * len(files)
    task_idx, param_idx, file_idx,   \* loop counters of run_experiment
    output_uri,     \* output reference of the current task
    all_results, param_results,      \* result accumulators
    best_result, best_score,         \* the best-result register
    elapsed,        \* time.time() - start inside wait_for_output
    output, size1, size2,            \* locals of wait_for_output
    analysis,       \* analysis record of the current task
    notifications,  \* calls of send_notification, in order
    metric_calls,   \* calls of run_metrics: the local file each was given
    summary,        \* contents of summary.json, None until written
    jobState,       \* lifecycle state of every task
    submits,        \* number of POSTs issued for every task
    ops,            \* remote/local operations performed for every task
    outputRef,      \* output reference given to every task
    fetched,        \* local output files written by download_file
    submissions,    \* the POSTs of trigger_transcode, in order
    run_dir,        \* whether the run directory has been created
    call            \* a call of one function on its own: its arguments and, once it returned, its result

vars == <<files, param_defs, targets, metrics, dry_run, pc,
          combinations, total_tasks, task_idx, param_idx, file_idx,
          output_uri, all_results, param_results, best_result, best_score,
          elapsed, output, size1, size2, analysis, notifications,
          metric_calls, summary, jobState, submits, ops, outputRef, fetched, submissions, run_dir, call>>

----------------------------------------------------------------------------
(* Bounds of the model.  MaxWait stands for max_wait (3600 in the code): with a   *)
(* check interval of 10 it leaves room for two polls of the output.              *)
(* MaxDelta is the largest distance of a measurement from its target in the      *)
(* calls of check_targets, MaxKeys and MaxAlts the largest numbers of keys and    *)
(* of alternatives of a key in the calls of generate_param_combinations.          *)
(* MaxPayloads is the number of payloads built from one template.                *)

MaxFiles == 2
MaxTasks == 4
MaxWait == 15
MaxDelta == 3
MaxKeys == 2
MaxAlts == 2
MaxPayloads == 2

(* Program constants *)

CheckInterval == 10
StabilityDelay == 2
Inf == -1

None == [tag |-> "None"]

----------------------------------------------------------------------------
(* Strings are sequences of one-character strings *)

S_file == <<"f", "i", "l", "e", ":">>
S_outdir == <<"f", "i", "l", "e", ":", "/", "t", "m", "p", "/", "o", "u", "t", "p", "u", "t", "/">>
S_p == <<"_", "p">>
S_mp4 == <<".", "m", "p", "4">>
READY == <<"R", "E", "A", "D", "Y">>

IsPrefixAt(pat, s, i) ==
    /\ i + Len(pat) - 1 <= Len(s)
    /\ \A k \in 1..Len(pat) : s[i + k - 1] = pat[k]

\* sub in s
Contains(sub, s) == \E i \in 1..(Len(s) + 1) : IsPrefixAt(sub, s, i)

RECURSIVE RemoveAll(_, _)
\* s.replace(pat, '')
RemoveAll(s, pat) ==
    IF s = <<>> THEN <<>>
    ELSE IF IsPrefixAt(pat, s, 1)
         THEN RemoveAll(SubSeq(s, Len(pat) + 1, Len(s)), pat)
         ELSE <<Head(s)>> \o RemoveAll(Tail(s), pat)

RECURSIVE SplitSlash(_, _)
\* the components of a path between '/' separators, cur being the one under construction
SplitSlash(s, cur) ==
    IF s = <<>> THEN <<cur>>
    ELSE IF Head(s) = "/" THEN <<cur>> \o SplitSlash(Tail(s), <<>>)
         ELSE SplitSlash(Tail(s), Append(cur, Head(s)))

\* PurePath.parts without the root: empty and '.' components are dropped
PathParts(s) == SelectSeq(SplitSlash(s, <<>>), LAMBDA c : c # <<>> /\ c # <<".">>)

\* PurePath.name
PathName(s) == LET p == PathParts(s) IN IF p = <<>> THEN <<>> ELSE p[Len(p)]

\* name.rfind('.') as a 1-based position, 0 when absent
RFindDot(name) ==
    LET idx == {i \in 1..Len(name) : name[i] = "."}
    IN IF idx = {} THEN 0 ELSE CHOOSE i \in idx : \A j \in idx : j <= i

\* PurePath.stem
PathStem(s) ==
    LET name == PathName(s)
        i == RFindDot(name)
    IN IF 1 < i /\ i < Len(name) THEN SubSeq(name, 1, i - 1) ELSE name

DigitChar(d) == <<"0", "1", "2", "3", "4", "5", "6", "7", "8", "9">>[d + 1]

RECURSIVE IntToStr(_)
\* str(n) for n >= 0
IntToStr(n) == IF n < 10 THEN <<DigitChar(n)>> ELSE IntToStr(n \div 10) \o <<DigitChar(n % 10)>>

\* output_uri = f"file:/tmp/output/{input_basename}_p{param_idx}.mp4"
OutputUri(input_uri, pidx) ==
    S_outdir \o PathStem(RemoveAll(input_uri, S_file)) \o S_p \o IntToStr(pidx) \o S_mp4

\* run_dir / f'task_{n:04d}_output.mp4'
RECURSIVE ZeroPad(_, _)
ZeroPad(s, width) == IF Len(s) >= width THEN s ELSE ZeroPad(<<"0">> \o s, width)

LocalFile(n) ==
    <<"t", "a", "s", "k", "_">> \o ZeroPad(IntToStr(n), 4) \o <<"_", "o", "u", "t", "p", "u", "t">> \o S_mp4

----------------------------------------------------------------------------
(* dict helpers *)

Has(d, k) == k \in DOMAIN d
Get(d, k, default) == IF k \in DOMAIN d THEN d[k] ELSE default
Abs(x) == IF x < 0 THEN -x ELSE x

EmptyDict == [k \in {} |-> 0]

----------------------------------------------------------------------------
(* generate_param_combinations *)

\* an empty list of alternatives is taken as one value
AsList_KeepEmpty(v) == IF v.list THEN (IF v.items = <<>> THEN <<v.items>> ELSE v.items) ELSE <<v.scalar>>

\* v if isinstance(v, list) else [v]
AsList(v) == IF v.list THEN v.items ELSE <<v.scalar>>

RECURSIVE Product(_)
\* itertools.product(*values): the last sequence varies fastest
Product(values) ==
    IF values = <<>> THEN << <<>> >>
    ELSE LET rest == Product(Tail(values))
             RECURSIVE Over(_)
             Over(xs) ==
                 IF xs = <<>> THEN <<>>
                 ELSE [i \in 1..Len(rest) |-> <<Head(xs)>> \o rest[i]] \o Over(Tail(xs))
         IN Over(Head(values))

\* every key is given the first value of the combination
ZipDict_Mut(keys, combo) == [k \in {keys[i] : i \in 1..Len(keys)} |-> combo[1]]

\* dict(zip(keys, combo))
ZipDict(keys, combo) ==
    [k \in {keys[i] : i \in 1..Len(keys)} |->
        combo[CHOOSE i \in 1..Len(keys) : keys[i] = k /\ \A j \in 1..Len(keys) : keys[j] = k => j <= i]]

\* the product is taken with the first key varying fastest
generate_param_combinations_FirstFastest(defs) ==
    LET keys == [i \in 1..Len(defs.keys) |-> defs.keys[Len(defs.keys) + 1 - i]]
        values == [i \in 1..Len(keys) |-> AsList(defs.vals[keys[i]])]
        combos == Product(values)
    IN [i \in 1..Len(combos) |-> ZipDict(keys, combos[i])]

\* a mapping without keys gives no assignment at all
generate_param_combinations_NoKeys(defs) ==
    LET keys == defs.keys
        values == [i \in 1..Len(keys) |-> AsList(defs.vals[keys[i]])]
        combos == IF keys = <<>> THEN <<>> ELSE Product(values)
    IN [i \in 1..Len(combos) |-> ZipDict(keys, combos[i])]

generate_param_combinations(defs) ==
    LET keys == defs.keys
        values == [i \in 1..Len(keys) |-> AsList(defs.vals[keys[i]])]
        combos == Product(values)
    IN [i \in 1..Len(combos) |-> ZipDict(keys, combos[i])]

----------------------------------------------------------------------------
(* inject_params *)

\* path.split('.') for the dotted paths that occur in the configurations of the
\* model; a name without a dot is its own single key
PathKeys(path) ==
    CASE path = "encoder.bitrate" -> <<"encoder", "bitrate">>
      [] path = "encoder.gop" -> <<"encoder", "gop">>
      [] path = "input.uri" -> <<"input", "uri">>
      [] path = "output.uri" -> <<"output", "uri">>
      [] OTHER -> <<path>>

\* d[k] = v
Put(d, k, v) == [x \in DOMAIN d \cup {k} |-> IF x = k THEN v ELSE d[x]]

RECURSIVE SetAt(_, _, _)
\* the walk of set_nested_value along keys: a missing level is created empty,
\* the last key receives the value
SetAt(current, keys, value) ==
    IF Len(keys) = 1 THEN Put(current, keys[1], value)
    ELSE Put(current, Head(keys),
             SetAt(IF Has(current, Head(keys)) THEN current[Head(keys)] ELSE EmptyDict,
                   Tail(keys), value))

set_nested_value(obj, path, value) == SetAt(obj, PathKeys(path), value)

RECURSIVE InjectItems(_, _, _)
\* for path, value in params.items(): set_nested_value(result, path, value),
\* paths being the keys of params in their order of insertion
InjectItems(result, params, paths) ==
    IF paths = <<>> THEN result
    ELSE InjectItems(set_nested_value(result, Head(paths), params[Head(paths)]), params, Tail(paths))

\* the assignments are built by dict(zip(keys, combo)), so their keys come in the
\* order of the keys of param_defs
inject_params(template, params) ==
    InjectItems(template, params, SelectSeq(param_defs.keys, LAMBDA k : Has(params, k)))

\* the request template of the experiment
Template == [encoder |-> [bitrate |-> 1000, preset |-> 3]]

\* uri_paths.get('input', 'input.uri'), uri_paths.get('output', 'output.uri')
input_uri_path == "input.uri"
output_uri_path == "output.uri"

\* payload = inject_params(template, params), then the two references are set
Payload(params, input_uri, out_uri) ==
    set_nested_value(set_nested_value(inject_params(Template, params), input_uri_path, input_uri),
                     output_uri_path, out_uri)

----------------------------------------------------------------------------
(* inject_params on objects with identity.  A heap is a sequence of dicts, a   *)
(* dict object being named by its position; the values of a dict are tagged:   *)
(* a reference to a dict object, an int or a str.  An operation that can raise *)
(* returns ok = FALSE with the heap as it was left.                            *)

Ref(id) == [t |-> "dict", v |-> id]
IntV(n) == [t |-> "int", v |-> n]
StrV(x) == [t |-> "str", v |-> x]
NoneV == [t |-> "None", v |-> 0]

RECURSIVE SetWalk(_, _, _, _)
\* set_nested_value from the level current on: on a level that is not a dict,
\* `key not in current`, `current[key]` or `current[key] = ...` raises TypeError
SetWalk(h, current, keys, value) ==
    IF current.t # "dict" THEN [ok |-> FALSE, heap |-> h]
    ELSE IF Len(keys) = 1
         THEN [ok |-> TRUE, heap |-> [h EXCEPT ![current.v] = Put(@, keys[1], value)]]
         ELSE IF Head(keys) \notin DOMAIN h[current.v]
              THEN LET n == Len(h) + 1
                       h1 == Append([h EXCEPT ![current.v] = Put(@, Head(keys), Ref(n))], EmptyDict)
                   IN SetWalk(h1, Ref(n), Tail(keys), value)
              ELSE SetWalk(h, h[current.v][Head(keys)], Tail(keys), value)

\* set_nested_value(obj, path, value), obj mutated in place
SetNested(h, obj, path, value) == SetWalk(h, obj, PathKeys(path), value)

RECURSIVE GetWalk(_, _, _, _)
\* get_nested_value from the level current on
GetWalk(h, current, keys, default) ==
    IF keys = <<>> THEN current
    ELSE IF current.t = "dict" /\ Head(keys) \in DOMAIN h[current.v]
         THEN GetWalk(h, h[current.v][Head(keys)], Tail(keys), default)
         ELSE default

\* get_nested_value(obj, path, default)
GetNested(h, obj, path, default) == GetWalk(h, obj, PathKeys(path), default)

RECURSIVE DeepCopy(_, _)
RECURSIVE CopyInto(_, _, _, _)
\* the entries ks of the dict src are copied into the new dict dst
CopyInto(h, src, dst, ks) ==
    IF ks = {} THEN h
    ELSE LET k == CHOOSE x \in ks : TRUE
             c == DeepCopy(h, h[src][k])
         IN CopyInto([c.heap EXCEPT ![dst] = Put(@, k, c.val)], src, dst, ks \ {k})

\* copy.deepcopy(v): every dict reachable from v gets a new object
DeepCopy(h, v) ==
    IF v.t # "dict" THEN [heap |-> h, val |-> v]
    ELSE LET n == Len(h) + 1
         IN [heap |-> CopyInto(Append(h, EmptyDict), v.v, n, DOMAIN h[v.v]), val |-> Ref(n)]

\* result = dict(template): only the top level is a new object
CopyTemplate_Shallow(h, template) == [heap |-> Append(h, h[template.v]), val |-> Ref(Len(h) + 1)]

\* result = deepcopy(template)
CopyTemplate(h, template) == DeepCopy(h, template)

RECURSIVE InjectWalk(_, _, _, _)
\* for path, value in params.items(): set_nested_value(result, path, value); an
\* exception ends the loop
InjectWalk(h, result, params, paths) ==
    IF paths = <<>> THEN [ok |-> TRUE, heap |-> h, val |-> result]
    ELSE LET r == SetNested(h, result, Head(paths), IntV(params.vals[Head(paths)]))
         IN IF r.ok THEN InjectWalk(r.heap, result, params, Tail(paths))
            ELSE [ok |-> FALSE, heap |-> r.heap, val |-> result]

\* inject_params(template, params), params a dict with its keys in order
InjectParams(h, template, params) ==
    LET c == CopyTemplate(h, template)
    IN InjectWalk(c.heap, c.val, params, params.keys)

\* lines 419-421 of run_experiment: the payload of a task
BuildPayload(h, template, params, input_uri, out_uri) ==
    LET r == InjectParams(h, template, params)
        a == IF r.ok THEN SetNested(r.heap, r.val, input_uri_path, StrV(input_uri))
             ELSE [ok |-> FALSE, heap |-> r.heap]
        b == IF a.ok THEN SetNested(a.heap, r.val, output_uri_path, StrV(out_uri))
             ELSE [ok |-> FALSE, heap |-> a.heap]
    IN [ok |-> b.ok, heap |-> b.heap, val |-> r.val, injected |-> r]

----------------------------------------------------------------------------
(* check_targets *)

\* 100 * targets.get(tolkey, target * fraction), fraction given in percent
Tolerance100(tg, tolkey, target, percent) ==
    IF Has(tg, tolkey) THEN 100 * tg[tolkey] ELSE target * percent

\* a difference equal to the tolerance already counts as a violation
Exceeds_Mut(actual, target, tol100) == 100 * Abs(actual - target) >= tol100

\* abs(actual - target) > tolerance
Exceeds(actual, target, tol100) == 100 * Abs(actual - target) > tol100

\* a peak equal to the ceiling already counts as a violation
OverMax_Mut(actual, target) == actual >= target

\* analysis.get('bitrate_max', 0) > targets['bitrate_max']
OverMax(actual, target) == actual > target

\* only the first violation is reported
Violation_Mut(acc, issue) == [passed |-> FALSE, issues |-> IF acc.issues = <<>> THEN <<issue>> ELSE acc.issues]

\* passed = False; issues.append(...)
Violation(acc, issue) == [passed |-> FALSE, issues |-> Append(acc.issues, issue)]

check_targets(an, tg) ==
    LET r0 == [passed |-> TRUE, issues |-> <<>>]
        a1 == Get(an, "bitrate_avg", 0)
        t1 == Get(tg, "bitrate_avg", 0)
        r1 == IF /\ Has(tg, "bitrate_avg") /\ Has(an, "bitrate_avg")
                 /\ Exceeds(a1, t1, Tolerance100(tg, "bitrate_tolerance", t1, 5))
              THEN Violation(r0, [metric |-> "bitrate_avg", actual |-> a1, target |-> t1])
              ELSE r0
        a2 == Get(an, "bitrate_max", 0)
        t2 == Get(tg, "bitrate_max", 0)
        r2 == IF Has(tg, "bitrate_max") /\ OverMax(a2, t2)
              THEN Violation(r1, [metric |-> "bitrate_max", actual |-> a2, target |-> t2])
              ELSE r1
        a3 == Get(an, "iframe_avg_size", 0)
        t3 == Get(tg, "iframe_avg_size", 0)
        r3 == IF /\ Has(tg, "iframe_avg_size") /\ Has(an, "iframe_avg_size")
                 /\ Exceeds(a3, t3, Tolerance100(tg, "iframe_tolerance", t3, 10))
              THEN Violation(r2, [metric |-> "iframe_avg_size", actual |-> a3, target |-> t3])
              ELSE r2
    IN r3

\* a missing bitrate_avg counts as a measurement on target
Score_MissingOnTarget(an, tg) ==
    Abs(Get(an, "bitrate_avg", Get(tg, "bitrate_avg", 0)) - Get(tg, "bitrate_avg", 0))

\* score = abs(analysis.get('bitrate_avg', 0) - targets.get('bitrate_avg', 0))
Score(an, tg) == Abs(Get(an, "bitrate_avg", 0) - Get(tg, "bitrate_avg", 0))

\* best_score starting at 0: no score is below it
Improves_FromZero(score, best) == IF best = Inf THEN score < 0 ELSE score < best

\* score <= best_score: a later task with an equal score replaces the best one
Improves_Mut(score, best) == IF best = Inf THEN TRUE ELSE score <= best

\* score < best_score, best_score starting at float('inf')
Improves(score, best) == IF best = Inf THEN TRUE ELSE score < best

----------------------------------------------------------------------------
(* Inputs of a run *)

F_a_v == S_file \o <<"/", "a", "/", "v", ".", "m", "p", "4">>
F_b_v == S_file \o <<"/", "b", "/", "v", ".", "m", "p", "4">>
F_w == <<"/", "a", "/", "w", ".", "m", "k", "v">>

FileURIs == {F_a_v, F_b_v, F_w}

RECURSIVE SeqsUpTo(_, _)
SeqsUpTo(S, n) ==
    IF n = 0 THEN {<<>>}
    ELSE LET shorter == SeqsUpTo(S, n - 1)
         IN shorter \cup {Append(q, x) : q \in {r \in shorter : Len(r) = n - 1}, x \in S}

\* the lists of distinct input references, the references in one fixed order
FileLists ==
    LET catalogue == <<F_a_v, F_b_v, F_w>>
        Pos(f) == CHOOSE i \in 1..Len(catalogue) : catalogue[i] = f
    IN {q \in SeqsUpTo(FileURIs, MaxFiles) : \A i, j \in 1..Len(q) : i < j => Pos(q[i]) < Pos(q[j])}

ListVal(xs) == [list |-> TRUE, items |-> xs]
ScalarVal(x) == [list |-> FALSE, scalar |-> x]

ParamDefChoices ==
    { [keys |-> <<>>, vals |-> EmptyDict],
      [keys |-> <<"encoder.bitrate">>, vals |-> [k \in {"encoder.bitrate"} |-> ListVal(<<2000, 3000>>)]],
      [keys |-> <<"encoder.bitrate">>, vals |-> [k \in {"encoder.bitrate"} |-> ListVal(<<>>)]] }

TargetChoices ==
    { EmptyDict,
      [bitrate_avg |-> 2900, bitrate_tolerance |-> 100] }

MetricChoices == { <<>>, <<"psnr", "vmaf">> }

\* what analyze_video can return
AnalysisError == [error |-> "analysis failed"]
AnalysisOf(bitrate) ==
    [bitrate_avg |-> bitrate, iframe_avg_size |-> 0, iframe_max_size |-> 0,
     iframe_count |-> 0, duration |-> 0, resolution |-> "NonexNone"]
AnalysisChoices == {AnalysisError} \cup {AnalysisOf(b) : b \in {2000, 2950}}

\* what the remote probes can print
ExistOutputs == {<<>>, READY, <<"x", " ">> \o READY}
Sizes == {"", "0", "100", "200"}

Tasks == 1..MaxTasks

----------------------------------------------------------------------------
(* Decision points of run_experiment and wait_for_output *)

\* for i, x in reversed(list(enumerate(xs, 1))): the list is walked backwards
Enumerate_Mut(xs, i) == xs[Len(xs) + 1 - i]

\* for i, x in enumerate(xs, 1): the element that comes with index i
Enumerate(xs, i) == xs[i]

\* the task is left right after a successful submission, without waiting for its output
AfterSubmit_NoWait(success) == "inner"

\* the continue after a failed submission is missing
AfterSubmit_Mut(success) == "looptest"

\* if not success: continue
AfterSubmit(success) == IF success THEN "looptest" ELSE "inner"

\* the continue after a failed download is missing
AfterDownload_Mut(ok) == "analyze"

\* if not download_file(...): continue
AfterDownload(ok) == IF ok THEN "analyze" ELSE "inner"

\* the failure of the analyzer is raised instead of being returned as a record
AfterAnalyze_Mut(an) == IF Has(an, "error") THEN "aborted" ELSE "evaluate"

\* analysis = analyze_video(...): every failure is caught inside and returned as
\* {'error': ...}, so the coordinator always goes on to check_targets
AfterAnalyze(an) == "evaluate"

\* while time.time() - start < max_wait
WithinBudget(waited) == waited < MaxWait

\* if "READY" in output
Exists(out) == Contains(READY, out)

\* if success and size1
Sampled(success, s1) == success /\ s1 # ""

\* if size1 == size2: the test for an empty file is missing
Stable_Mut(s1, s2) == s1 = s2

\* if size1 == size2 and size1 != '0'
Stable(s1, s2) == s1 = s2 /\ s1 # "0"

\* best_file = run_dir / f"task_{best_result['param_index']:04d}_output.mp4"
BestFile(best) == LocalFile(best.param_index)

\* the locals of one loop iteration, as they are before a task starts
ResetLocals ==
    /\ elapsed' = 0
    /\ output' = <<>>
    /\ size1' = ""
    /\ size2' = ""
    /\ analysis' = None

\* print("retry"); time.sleep(check_interval): the iteration ends.  output, size1 and
\* size2 are dead here (the next iteration writes each before it reads it), so they
\* are given their initial values.
Sleep ==
    /\ elapsed' = elapsed + CheckInterval
    /\ output' = <<>>
    /\ size1' = ""
    /\ size2' = ""
    /\ pc' = "looptest"

Did(op) == [ops EXCEPT ![task_idx] = @ \cup {op}]
Becomes(st) == [jobState EXCEPT ![task_idx] = st]

----------------------------------------------------------------------------
\* the locals of run_experiment and the record of a run, before its first step
Blank ==
    /\ combinations = <<>>
    /\ total_tasks = 0
    /\ task_idx = 0
    /\ param_idx = 0
    /\ file_idx = 0
    /\ output_uri = <<>>
    /\ all_results = <<>>
    /\ param_results = None
    /\ best_result = None
    /\ best_score = Inf
    /\ elapsed = 0
    /\ output = <<>>
    /\ size1 = ""
    /\ size2 = ""
    /\ analysis = None
    /\ notifications = <<>>
    /\ metric_calls = <<>>
    /\ summary = None
    /\ jobState = [t \in Tasks |-> "NotStarted"]
    /\ submits = [t \in Tasks |-> 0]
    /\ ops = [t \in Tasks |-> {}]
    /\ outputRef = [t \in Tasks |-> <<>>]
    /\ fetched = {}
    /\ submissions = <<>>
    /\ run_dir = FALSE

\* run_experiment is about to be entered
Fresh ==
    /\ pc = "start"
    /\ Blank

Init ==
    /\ files \in FileLists
    /\ param_defs \in ParamDefChoices
    /\ Len(generate_param_combinations(param_defs)) * Len(files) <= MaxTasks
    /\ targets \in TargetChoices
    /\ metrics \in MetricChoices
    /\ dry_run \in BOOLEAN
    /\ call = None
    /\ Fresh

config == <<files, param_defs, targets, metrics, dry_run>>
locals == <<elapsed, output, size1, size2, analysis>>
results == <<all_results, param_results, best_result, best_score, notifications, metric_calls, summary>>
counters == <<task_idx, param_idx, file_idx, output_uri>>
jobs == <<jobState, submits, ops, outputRef, fetched, submissions, run_dir>>

\* the run directory is created before dry_run is tested
DryRun_AfterMkdir ==
    /\ pc = "start" /\ dry_run
    /\ combinations' = generate_param_combinations(param_defs)
    /\ run_dir' = TRUE
    /\ pc' = "done"
    /\ UNCHANGED <<config, call, total_tasks, locals, results, counters, jobState, submits, ops,
                   outputRef, fetched, submissions>>

\* run_experiment with dry_run: print the preview and return
DryRun ==
    /\ pc = "start" /\ dry_run
    /\ combinations' = generate_param_combinations(param_defs)
    /\ pc' = "done"
    /\ UNCHANGED <<config, call, total_tasks, locals, results, counters, jobs>>

\* run_experiment up to the start of the loops
Prepare ==
    /\ pc = "start" /\ ~dry_run
    /\ combinations' = generate_param_combinations(param_defs)
    /\ total_tasks' = Len(combinations') * Len(files)
    /\ all_results' = <<>>
    /\ best_result' = None
    /\ best_score' = Inf
    /\ task_idx' = 0
    /\ run_dir' = TRUE
    /\ pc' = "outer"
    /\ UNCHANGED <<config, call, locals, param_results, notifications, metric_calls, summary,
                   param_idx, file_idx, output_uri, jobState, submits, ops, outputRef, fetched,
                   submissions>>

\* for param_idx, params in enumerate(combinations, 1)
NextParam ==
    /\ pc = "outer" /\ param_idx < Len(combinations)
    /\ param_idx' = param_idx + 1
    /\ param_results' = [param_index |-> param_idx', params |-> Enumerate(combinations, param_idx'),
                         files |-> <<>>]
    /\ file_idx' = 0
    /\ pc' = "inner"
    /\ UNCHANGED <<config, call, combinations, total_tasks, locals, all_results, best_result, best_score,
                   notifications, metric_calls, summary, task_idx, output_uri, jobs>>

\* the outer loop is exhausted
LoopDone ==
    /\ pc = "outer" /\ param_idx >= Len(combinations)
    /\ pc' = "best"
    /\ UNCHANGED <<config, call, combinations, total_tasks, locals, results, counters, jobs>>

\* for file_idx, input_uri in enumerate(files, 1): the task starts
NextFile ==
    /\ pc = "inner" /\ file_idx < Len(files)
    /\ file_idx' = file_idx + 1
    /\ task_idx' = task_idx + 1
    /\ output_uri' = OutputUri(Enumerate(files, file_idx'), param_idx)
    /\ outputRef' = [outputRef EXCEPT ![task_idx'] = output_uri']
    /\ jobState' = [jobState EXCEPT ![task_idx'] = "Pending"]
    /\ ops' = [ops EXCEPT ![task_idx'] = @ \cup {"config"}]
    /\ pc' = "submit"
    /\ UNCHANGED <<config, call, combinations, total_tasks, locals, results, param_idx, submits, fetched, submissions, run_dir>>

\* the inner loop is exhausted: all_results.append(param_results)
EndParam ==
    /\ pc = "inner" /\ file_idx >= Len(files)
    /\ all_results' = Append(all_results, param_results)
    /\ pc' = "outer"
    /\ UNCHANGED <<config, call, combinations, total_tasks, locals, param_results, best_result, best_score,
                   notifications, metric_calls, summary, counters, jobs>>

\* trigger_transcode and the test of its result
Submit ==
    /\ pc = "submit"
    /\ \E success \in BOOLEAN :
        /\ submits' = [submits EXCEPT ![task_idx] = @ + 1]
        /\ submissions' = Append(submissions, [task |-> task_idx,
                                                payload |-> Payload(param_results.params,
                                                                    Enumerate(files, file_idx),
                                                                    output_uri)])
        /\ ops' = [ops EXCEPT ![task_idx] = @ \cup (IF success THEN {"submit"} ELSE {"submit", "submit_failed"})]
        /\ jobState' = Becomes(IF success THEN "Submitted" ELSE "SubmitFailed")
        /\ pc' = AfterSubmit(success)
    /\ UNCHANGED <<config, call, combinations, total_tasks, locals, results, counters, outputRef, fetched, run_dir>>

\* wait_for_output: the loop test succeeds
PollNext ==
    /\ pc = "looptest" /\ WithinBudget(elapsed)
    /\ jobState' = Becomes("Polling")
    /\ pc' = "probe"
    /\ UNCHANGED <<config, call, combinations, total_tasks, locals, results, counters, submits, ops,
                   outputRef, fetched, submissions, run_dir>>

\* wait_for_output returns False: the task is given up
PollTimeout ==
    /\ pc = "looptest" /\ ~WithinBudget(elapsed)
    /\ jobState' = Becomes("Timeout")
    /\ ResetLocals
    /\ pc' = "inner"
    /\ UNCHANGED <<config, call, combinations, total_tasks, results, counters, submits, ops, outputRef, fetched, submissions, run_dir>>

\* ssh_command "test -f ... && echo READY" returns
ProbeExist ==
    /\ pc = "probe"
    /\ \E out \in ExistOutputs :
        IF Exists(out)
        THEN /\ output' = out
             /\ pc' = "stat1"
             /\ UNCHANGED <<elapsed, size1, size2>>
        ELSE Sleep
    /\ ops' = Did("probe")
    /\ UNCHANGED <<config, call, combinations, total_tasks, analysis, results, counters,
                   jobState, submits, outputRef, fetched, submissions, run_dir>>

\* the first "stat -c %s" returns
Stat1 ==
    /\ pc = "stat1"
    /\ \E success \in BOOLEAN, s \in Sizes :
        IF Sampled(success, s)
        THEN /\ size1' = s
             /\ elapsed' = elapsed + StabilityDelay
             /\ jobState' = Becomes("Stabilizing")
             /\ pc' = "stat2"
             /\ UNCHANGED <<output, size2>>
        ELSE /\ Sleep
             /\ jobState' = jobState
    /\ ops' = Did("probe")
    /\ UNCHANGED <<config, call, combinations, total_tasks, analysis, results, counters,
                   submits, outputRef, fetched, submissions, run_dir>>

\* the second "stat -c %s" returns
Stat2 ==
    /\ pc = "stat2"
    /\ \E success \in BOOLEAN, s \in Sizes :
        IF Stable(size1, s)
        THEN /\ size2' = s
             /\ jobState' = Becomes("Ready")
             /\ pc' = "download"
             /\ UNCHANGED <<elapsed, output, size1>>
        ELSE /\ Sleep
             /\ jobState' = Becomes("Polling")
    /\ ops' = Did("probe")
    /\ UNCHANGED <<config, call, combinations, total_tasks, analysis, results, counters,
                   submits, outputRef, fetched, submissions, run_dir>>

\* subprocess.run raises TimeoutExpired inside ssh_command; nothing catches it
ProbeTimeout ==
    /\ pc \in {"probe", "stat1", "stat2"}
    /\ ops' = Did("probe")
    /\ pc' = "aborted"
    /\ UNCHANGED <<config, call, combinations, total_tasks, locals, results, counters, jobState, submits,
                   outputRef, fetched, submissions, run_dir>>

\* download_file returns
Download ==
    /\ pc = "download"
    /\ \E ok \in BOOLEAN :
        /\ fetched' = IF ok THEN fetched \cup {LocalFile(task_idx)} ELSE fetched
        /\ jobState' = Becomes(IF ok THEN "Fetched" ELSE "FetchFailed")
        /\ pc' = AfterDownload(ok)
        /\ IF pc' = "inner" THEN ResetLocals ELSE UNCHANGED locals
    /\ ops' = Did("fetch")
    /\ UNCHANGED <<config, call, combinations, total_tasks, results, counters, submits, outputRef, submissions, run_dir>>

\* the scp of download_file, started without a timeout, never returns
DownloadHang ==
    /\ pc = "download"
    /\ ops' = Did("fetch")
    /\ pc' = "hung"
    /\ UNCHANGED <<config, call, combinations, total_tasks, locals, results, counters, jobState, submits,
                   outputRef, fetched, submissions, run_dir>>

\* analyze_video returns a record, with an error marker when it failed
Analyze ==
    /\ pc = "analyze"
    /\ analysis' \in AnalysisChoices
    /\ jobState' = Becomes("Analyzed")
    /\ ops' = Did("analyze")
    /\ pc' = AfterAnalyze(analysis')
    /\ UNCHANGED <<config, call, combinations, total_tasks, elapsed, output, size1, size2, results,
                   counters, submits, outputRef, fetched, submissions, run_dir>>

\* check_targets, the update of the best result, the notification and the record
Evaluate ==
    /\ pc = "evaluate"
    /\ LET r == check_targets(analysis, targets)
           file_result == [file_index |-> file_idx, input_uri |-> Enumerate(files, file_idx),
                           output_uri |-> output_uri, analysis |-> analysis,
                           passed |-> r.passed, issues |-> r.issues]
           score == Score(analysis, targets)
       IN /\ IF r.passed /\ Improves(score, best_score)
             THEN /\ best_score' = score
                  /\ best_result' = [param_index |-> param_idx, params |-> param_results.params,
                                      file_result |-> file_result]
             ELSE UNCHANGED <<best_score, best_result>>
          /\ notifications' = Append(notifications,
                                      [kind |-> "task", task |-> task_idx, passed |-> r.passed,
                                       file |-> PathName(Enumerate(files, file_idx))])
          /\ param_results' = [param_results EXCEPT !.files = Append(@, file_result)]
          /\ jobState' = Becomes(IF r.passed THEN "Passed" ELSE "Failed")
    /\ ops' = Did("evaluate")
    /\ ResetLocals
    /\ pc' = "inner"
    /\ UNCHANGED <<config, call, combinations, total_tasks, all_results, metric_calls, summary, counters,
                   submits, outputRef, fetched, submissions, run_dir>>

\* the quality metrics of the best result
BestMetrics ==
    /\ pc = "best"
    /\ \E ref_video \in BOOLEAN :   \* config has a reference_video and that file exists
        IF best_result # None /\ metrics # <<>> /\ ref_video
        THEN /\ metric_calls' = Append(metric_calls, BestFile(best_result))
             /\ best_result' = best_result @@ ("metrics" :> "metric_results")
             /\ notifications' = Append(notifications, [kind |-> "best", param |-> best_result.param_index])
        ELSE UNCHANGED <<metric_calls, best_result, notifications>>
    /\ pc' = "save"
    /\ UNCHANGED <<config, call, combinations, total_tasks, locals, all_results, param_results, best_score,
                   summary, counters, jobs>>

RECURSIVE CountPassed_PerAssignment(_)
\* counts the assignments that have a passing file
CountPassed_PerAssignment(rs) ==
    IF rs = <<>> THEN 0
    ELSE (IF \E i \in 1..Len(Head(rs).files) : Head(rs).files[i].passed THEN 1 ELSE 0)
         + CountPassed_PerAssignment(Tail(rs))

RECURSIVE CountPassed(_)
\* sum(1 for r in all_results for f in r['files'] if f['passed'])
CountPassed(rs) ==
    IF rs = <<>> THEN 0
    ELSE Len(SelectSeq(Head(rs).files, LAMBDA f : f.passed)) + CountPassed(Tail(rs))

\* summary.json is written
SaveSummary ==
    /\ pc = "save"
    /\ summary' = [total_tasks |-> total_tasks, passed_tasks |-> CountPassed(all_results),
                   best |-> best_result, all_results |-> all_results]
    /\ pc' = "done"
    /\ UNCHANGED <<config, call, combinations, total_tasks, locals, all_results, param_results, best_result,
                   best_score, notifications, metric_calls, counters, jobs>>

Next ==
    \/ DryRun \/ Prepare \/ NextParam \/ LoopDone \/ NextFile \/ EndParam
    \/ Submit \/ PollNext \/ PollTimeout \/ ProbeExist \/ Stat1 \/ Stat2 \/ ProbeTimeout
    \/ Download \/ DownloadHang \/ Analyze \/ Evaluate \/ BestMetrics \/ SaveSummary

Spec == Init /\ [][Next]_vars

----------------------------------------------------------------------------
(* check_targets and generate_param_combinations called on their own *)

\* no experiment is running
IdleRun ==
    /\ files = <<>>
    /\ param_defs = [keys |-> <<>>, vals |-> EmptyDict]
    /\ targets = EmptyDict
    /\ metrics = <<>>
    /\ dry_run = FALSE
    /\ Fresh

\* a dict that has the key k, with one of vals, or has it not
Opt(k, vals) == {EmptyDict} \cup {k :> v : v \in vals}

\* targets: section of the configuration, every key optional
TargetInputs ==
    { a @@ b @@ c @@ d @@ e :
        a \in Opt("bitrate_avg", {20}), b \in Opt("bitrate_tolerance", {0, 2}),
        c \in Opt("bitrate_max", {25}),
        d \in Opt("iframe_avg_size", {10}), e \in Opt("iframe_tolerance", {0, 2}) }

\* analysis records: the error record, or measurements around the targets
AnalysisInputs ==
    {AnalysisError} \cup
    { a @@ b @@ c :
        a \in Opt("bitrate_avg", (20 - MaxDelta)..(20 + MaxDelta)),
        b \in Opt("bitrate_max", (25 - MaxDelta)..(25 + MaxDelta)),
        c \in Opt("iframe_avg_size", (10 - MaxDelta)..(10 + MaxDelta)) }

InitCheckTargets ==
    /\ IdleRun
    /\ call \in {[fn |-> "check_targets", analysis |-> a, targets |-> t, returned |-> FALSE, result |-> None] :
                    a \in AnalysisInputs, t \in TargetInputs}

\* passed, issues = check_targets(analysis, targets)
CallCheckTargets ==
    /\ call.fn = "check_targets" /\ ~call.returned
    /\ call' = [call EXCEPT !.returned = TRUE, !.result = check_targets(call.analysis, call.targets)]
    /\ UNCHANGED <<config, pc, combinations, total_tasks, locals, results, counters, jobs>>

NextCheckTargets == CallCheckTargets

SpecCheckTargets == InitCheckTargets /\ [][NextCheckTargets]_vars

\* the dotted paths a params: section may use
ParamKeys == {"encoder.bitrate", "encoder.gop", "preset"}

\* the values of a params: section: a scalar or a list of alternatives
ParamValues ==
    {ScalarVal(x) : x \in {1, 2}} \cup {ListVal(q) : q \in SeqsUpTo({1, 2}, MaxAlts)}

\* params: sections over the paths K, a dict keeping its keys in their order of
\* declaration
ParamDefInputs(K) ==
    UNION { {[keys |-> q, vals |-> f] : f \in [{q[i] : i \in 1..Len(q)} -> ParamValues]} :
              q \in {r \in SeqsUpTo(K, MaxKeys) : \A i, j \in 1..Len(r) : r[i] = r[j] => i = j} }

InitParamCombinations ==
    /\ IdleRun
    /\ call \in {[fn |-> "generate_param_combinations", param_defs |-> d, returned |-> FALSE, result |-> None] :
                    d \in ParamDefInputs(ParamKeys)}

\* combinations = generate_param_combinations(param_defs)
CallParamCombinations ==
    /\ call.fn = "generate_param_combinations" /\ ~call.returned
    /\ call' = [call EXCEPT !.returned = TRUE, !.result = generate_param_combinations(call.param_defs)]
    /\ UNCHANGED <<config, pc, combinations, total_tasks, locals, results, counters, jobs>>

NextParamCombinations == CallParamCombinations

SpecParamCombinations == InitParamCombinations /\ [][NextParamCombinations]_vars

----------------------------------------------------------------------------
(* inject_params and the payload of a task, built on their own *)

\* templates as json.load returns them, the template being object 1
TemplateHeaps ==
    { << [k \in {"encoder"} |-> Ref(2)], [bitrate |-> IntV(1000), preset |-> IntV(3)] >>,
      << EmptyDict >>,
      << [encoder |-> IntV(5), preset |-> IntV(3)] >>,
      << [k \in {"encoder"} |-> Ref(2)], [k \in {"bitrate"} |-> Ref(3)], [k \in {"kbps"} |-> IntV(1000)] >> }

\* the dotted paths of the assignments
InjectPaths == {"encoder", "encoder.bitrate", "preset"}

\* assignments: dicts from paths to a scalar, their keys in order
AssignmentInputs(K) ==
    UNION { {[keys |-> q, vals |-> [k \in {q[i] : i \in 1..Len(q)} |-> x]] : x \in {1, 2}} :
              q \in {r \in SeqsUpTo(K, MaxKeys) : \A i, j \in 1..Len(r) : r[i] = r[j] => i = j} }

RECURSIVE Struct(_, _)
\* the document under v, without the identities of its objects
Struct(h, v) ==
    IF v.t # "dict" THEN v
    ELSE [t |-> "document", v |-> [k \in DOMAIN h[v.v] |-> Struct(h, h[v.v][k])]]

InitInject ==
    /\ IdleRun
    /\ call \in {[fn |-> "inject_params", heap |-> h, template |-> Ref(1),
                   original |-> Struct(h, Ref(1)), raised |-> FALSE,
                   assigns |-> <<>>, payloads |-> <<>>, reads |-> <<>>] : h \in TemplateHeaps}

\* the payload of one more task is built from the template; after
\* inject_params has returned, every path of the assignment is read back
CallBuildPayload ==
    /\ call.fn = "inject_params" /\ ~call.raised
    /\ Len(call.assigns) < MaxPayloads
    /\ \E A \in AssignmentInputs(InjectPaths) :
          LET n == Len(call.assigns) + 1
              b == BuildPayload(call.heap, call.template, A, F_a_v, OutputUri(F_a_v, n))
              r == b.injected
          IN call' = [call EXCEPT
                        !.heap = b.heap,
                        !.raised = ~b.ok,
                        !.assigns = Append(@, A),
                        !.payloads = IF b.ok THEN Append(@, b.val) ELSE @,
                        !.reads = Append(@, [ok |-> r.ok,
                                             got |-> IF r.ok
                                                     THEN [path \in DOMAIN A.vals |->
                                                              GetNested(r.heap, r.val, path, NoneV)]
                                                     ELSE EmptyDict])]
    /\ UNCHANGED <<config, pc, combinations, total_tasks, locals, results, counters, jobs>>

NextInject == CallBuildPayload

SpecInject == InitInject /\ [][NextInject]_vars

----------------------------------------------------------------------------
(* main: the experiment is loaded, then run; the caller may interrupt it *)

\* which of the three files of the experiment directory exist
Experiments ==
    {[fn |-> "main", config |-> c, template |-> t, files |-> f] : c, t, f \in BOOLEAN}

\* Experiment.__init__: files is []; the contents of the configuration are those
\* the run will read
InitMain ==
    /\ call \in Experiments
    /\ files = <<>>
    /\ param_defs \in ParamDefChoices
    /\ targets \in TargetChoices
    /\ metrics \in MetricChoices
    /\ dry_run \in BOOLEAN
    /\ Blank
    /\ pc = "main"

\* where main is after exp.load(): it returned False, open() of the template
\* raised, or it returned True
AfterLoad(e) ==
    IF ~e.config THEN "load_failed" ELSE IF ~e.template THEN "load_raised" ELSE "start"

\* exp.load() and the test of its result in main
Load ==
    /\ pc = "main"
    /\ pc' = AfterLoad(call)
    /\ \E fl \in (IF pc' = "start" /\ call.files THEN FileLists ELSE {<<>>}) :
          /\ Len(generate_param_combinations(param_defs)) * Len(fl) <= MaxTasks
          /\ files' = fl
    /\ UNCHANGED <<param_defs, targets, metrics, dry_run, call, combinations, total_tasks,
                   locals, results, counters, jobs>>

\* the positions of run_experiment at which a task is under way
Interruptible == {"submit", "looptest", "probe", "stat1", "stat2", "download", "analyze", "evaluate"}

\* the caller interrupts the run (KeyboardInterrupt): no handler catches it, the
\* exception leaves run_experiment and main, and what was written stays as it is
Interrupt ==
    /\ pc \in Interruptible
    /\ pc' = "interrupted"
    /\ UNCHANGED <<config, call, combinations, total_tasks, locals, results, counters, jobs>>

NextMain == Load \/ Interrupt \/ Next

SpecMain == InitMain /\ [][NextMain]_vars

----------------------------------------------------------------------------
(* Vocabulary of the properties *)

InTask == {"submit", "looptest", "probe", "stat1", "stat2", "download", "analyze", "evaluate",
           "aborted", "hung"}
InPollLoop == {"looptest", "probe", "stat1", "stat2"}
RunOver == {"done", "aborted", "hung"}
TerminalStates == {"Passed", "Failed", "SubmitFailed", "Timeout", "FetchFailed"}

RECURSIVE Flatten(_)
\* the task records of a list of per-assignment results, in order
Flatten(rs) ==
    IF rs = <<>> THEN <<>>
    ELSE [i \in 1..Len(Head(rs).files) |->
             [param_index |-> Head(rs).param_index, file_result |-> Head(rs).files[i]]]
         \o Flatten(Tail(rs))

\* the records of the tasks evaluated so far, in the order of their evaluation
Evaluated ==
    Flatten(IF pc \in InTask \cup {"inner"} THEN Append(all_results, param_results) ELSE all_results)

\* position in the task matrix of the task a record belongs to
TaskOf(rec) == (rec.param_index - 1) * Len(files) + rec.file_result.file_index

ScoreOf(rec) == Score(rec.file_result.analysis, targets)

----------------------------------------------------------------------------
\* C1: a failure inside one task ends only that task, so whenever the run is over
\* every task of the matrix has been attempted.
C1_EveryTaskAttempted ==
    (pc \in {"done", "aborted"} /\ ~dry_run) => task_idx = total_tasks

\* C2: once the run is over every task of the matrix has a notification and a
\* record in the persisted summary, so the summary holds total_tasks records.
C2_EveryTaskSurfaced ==
    (pc = "done" /\ ~dry_run) =>
        /\ summary # None
        /\ Len(Flatten(summary.all_results)) = total_tasks
        /\ \A t \in 1..total_tasks :
              \E i \in 1..Len(notifications) :
                  notifications[i].kind = "task" /\ notifications[i].task = t

\* C3: a run that is not a dry run and that has come to its end has persisted
\* its summary.
C3_SummaryPersisted ==
    (pc \in RunOver /\ ~dry_run) => summary # None

\* C4: whenever some evaluated task passed, the best-result register holds the
\* first evaluated among the passing tasks of minimal score, and best_score is
\* that score.
C4_BestIsFirstMinimum ==
    LET ev == Evaluated
        passing == {i \in 1..Len(ev) : ev[i].file_result.passed}
        sc == [i \in passing |-> ScoreOf(ev[i])]
    IN passing # {} =>
        LET m == CHOOSE i \in passing :
                     \A j \in passing : sc[i] < sc[j] \/ (sc[i] = sc[j] /\ i <= j)
        IN /\ best_result # None
           /\ best_result.param_index = ev[m].param_index
           /\ best_result.file_result = ev[m].file_result
           /\ best_result.file_result.passed
           /\ best_score = ScoreOf(ev[m])

\* a later passing task tied with the best one on the minimal score
C4_TieKept ==
    LET ev == Evaluated
    IN \E i, j \in 1..Len(ev) :
          /\ i < j
          /\ ev[i].file_result.passed /\ ev[j].file_result.passed
          /\ ScoreOf(ev[i]) = ScoreOf(ev[j])
          /\ best_score = ScoreOf(ev[i])
          /\ \E k \in 1..Len(ev) : ~ev[k].file_result.passed

\* the transitions of the job lifecycle
LifecycleEdges ==
    { <<"NotStarted", "Pending">>,
      <<"Pending", "Submitted">>, <<"Pending", "SubmitFailed">>,
      <<"Submitted", "Polling">>,
      <<"Polling", "Stabilizing">>, <<"Stabilizing", "Polling">>,
      <<"Polling", "Timeout">>, <<"Stabilizing", "Timeout">>,
      <<"Stabilizing", "Ready">>,
      <<"Ready", "Fetched">>, <<"Ready", "FetchFailed">>,
      <<"Fetched", "Analyzed">>,
      <<"Analyzed", "Passed">>, <<"Analyzed", "Failed">> }

\* C5: every step of a job follows the lifecycle: polled only after a successful
\* submission, fetched only once ready, analyzed only once fetched, failures only
\* from their predecessors, and no step out of a terminal outcome.
C5_LifecycleOrder ==
    [][\A t \in Tasks :
          /\ jobState'[t] # jobState[t] =>
                 /\ <<jobState[t], jobState'[t]>> \in LifecycleEdges
                 /\ jobState[t] \notin TerminalStates
          /\ jobState[t] \in TerminalStates => ops'[t] = ops[t] /\ submits'[t] = submits[t]
          /\ ("fetch" \in ops'[t] /\ "fetch" \notin ops[t]) => jobState[t] = "Ready"
          /\ ("analyze" \in ops'[t] /\ "analyze" \notin ops[t]) => jobState[t] = "Fetched"
          /\ ops'[t] # ops[t] /\ "probe" \in ops'[t] \ ops[t] =>
                 jobState[t] \in {"Polling", "Stabilizing"}]_vars

\* one run in which the four ways a job can end have all happened
C5_AllOutcomesSeen ==
    /\ \E t \in Tasks : jobState[t] = "SubmitFailed"
    /\ \E t \in Tasks : jobState[t] = "Timeout"
    /\ \E t \in Tasks : jobState[t] = "FetchFailed"
    /\ \E t \in Tasks : jobState[t] \in {"Passed", "Failed"} /\ "fetch" \in ops[t]
    /\ pc = "done"

\* C6: wait_for_output returns True only from the second size sample, on a poll
\* whose existence probe printed READY and whose two samples are equal, non-empty
\* and not '0'; any other second sample sends the job back to polling.
C6_ReadyOnlyWhenStable ==
    [][/\ (pc' = "download" /\ pc # "download") =>
             /\ pc = "stat2"
             /\ Exists(output)
             /\ size1 = size2'
             /\ size1 \notin {"", "0"}
             /\ jobState'[task_idx] = "Ready"
       /\ (pc = "stat2" /\ pc' \notin {"download", "aborted", "stat2"}) =>
             /\ pc' = "looptest"
             /\ jobState'[task_idx] = "Polling"
       /\ \A t \in Tasks : (jobState'[t] = "Ready" /\ jobState[t] # "Ready") =>
             (t = task_idx /\ pc = "stat2" /\ pc' = "download")]_vars

\* readiness declared on a poll that follows one whose two samples did not agree
C6_ReadyAfterRetry ==
    /\ pc = "download"
    /\ jobState[task_idx] = "Ready"
    /\ elapsed >= CheckInterval + 2 * StabilityDelay
    /\ size1 = size2 /\ size1 = "200"

\* C7: a job that has started polling is either still inside the poll loop of the
\* running coordinator or has left it as ready or timed out, and the coordinator is
\* never inside a wait that nothing bounds.
C7_PollLoopBounded ==
    /\ \A t \in Tasks :
          jobState[t] \in {"Polling", "Stabilizing"} => (t = task_idx /\ pc \in InPollLoop)
    /\ pc # "hung"

\* C8: no task is submitted twice, and a task whose submission failed was
\* submitted once and has had no probe, fetch, analysis or evaluation.
C8_SubmitOnceNoRetry ==
    \A t \in Tasks :
        /\ submits[t] <= 1
        /\ "submit_failed" \in ops[t] =>
              /\ submits[t] = 1
              /\ jobState[t] = "SubmitFailed"
              /\ ops[t] \cap {"probe", "fetch", "analyze", "evaluate"} = {}
              /\ \A i \in 1..Len(Evaluated) : TaskOf(Evaluated[i]) # t
        /\ jobState[t] \notin {"NotStarted", "Pending"} => submits[t] = 1

\* a run that went on to its end after a failed submission
C8_FailedSubmissionSeen ==
    /\ pc = "done"
    /\ \E t \in Tasks : "submit_failed" \in ops[t]
    /\ \E t \in Tasks : jobState[t] = "Passed"

\* C9: run_metrics is called at most once, only after the last task, and on the
\* fetched output of the task held in the best-result register.
C9_MetricsOnBestOutput ==
    /\ Len(metric_calls) <= 1
    /\ metric_calls # <<>> =>
          /\ pc \in {"save", "done"}
          /\ best_result # None
          /\ metric_calls[1] = LocalFile(TaskOf(best_result))
          /\ metric_calls[1] \in fetched

\* C10: the tasks started so far have pairwise distinct output references.
C10_OutputRefsDistinct ==
    \A t1, t2 \in 1..task_idx : t1 # t2 => outputRef[t1] # outputRef[t2]

\* the notifications sent for tasks, in the order they were sent
TaskNotes == SelectSeq(notifications, LAMBDA n : n.kind = "task")

\* the place of task t in the matrix: assignments outside, files inside
ParamOfTask(t) == ((t - 1) \div Len(files)) + 1
FileOfTask(t) == ((t - 1) % Len(files)) + 1

\* the tasks notified so far
Notified(ns) == {ns[i].task : i \in {j \in 1..Len(ns) : ns[j].kind = "task"}}

\* C11: submissions and notifications follow the enumeration of the task matrix,
\* assignments in generated order outside and files in list order inside: both
\* logs only grow at their end; the i-th submission is that of the i-th task of
\* the matrix and is made after the notifications of the tasks before it; the
\* task notified is the one submitted last, named by its input file, and comes
\* after every task notified before.
C11_MatrixOrder ==
    [][ /\ submissions' # submissions =>
              LET s == submissions'[Len(submissions')]
              IN /\ submissions' = Append(submissions, s)
                 /\ s.task = Len(submissions')
                 /\ s.payload = Payload(combinations[ParamOfTask(s.task)], files[FileOfTask(s.task)],
                                        outputRef[s.task])
                 /\ s.payload["input"]["uri"] = files[FileOfTask(s.task)]
                 /\ \A t \in Notified(notifications) : t < s.task
        /\ notifications' # notifications =>
              LET n == notifications'[Len(notifications')]
              IN /\ notifications' = Append(notifications, n)
                 /\ n.kind = "task" =>
                       /\ n.task = Len(submissions)
                       /\ n.file = PathName(files[FileOfTask(n.task)])
                       /\ \A t \in Notified(notifications) : t < n.task ]_vars

\* a run over two assignments and two files in which every task was submitted
\* and notified
C11_FullMatrixRun ==
    /\ pc = "done"
    /\ Len(combinations) = 2 /\ Len(files) = 2
    /\ Len(submissions) = 4 /\ Len(TaskNotes) = 4

\* the lifecycle states a started task passes through before its outcome
NonTerminalStates == {"Pending", "Submitted", "Polling", "Stabilizing", "Ready", "Fetched", "Analyzed"}

\* the tasks whose lifecycle is under way
InProgress == {t \in Tasks : jobState[t] \in NonTerminalStates}

\* C12: at most one task is in a non-terminal lifecycle state, and it is the
\* current one; a submission is made only when every earlier task has reached
\* a terminal outcome; and the best-score register changes only in a step
\* after which no task's lifecycle is under way.
C12_OneTaskAtATime ==
    [][ /\ Cardinality(InProgress') <= 1
        /\ InProgress' \subseteq {task_idx'}
        /\ submissions' # submissions =>
              \A t \in 1..(task_idx - 1) : jobState[t] \in TerminalStates
        /\ (best_score' # best_score \/ best_result' # best_result) => InProgress' = {} ]_vars

\* a later task is being polled while the register holds an earlier task
C12_SecondTaskUnderWay ==
    /\ pc = "probe"
    /\ task_idx >= 2
    /\ best_result # None
    /\ jobState[task_idx] = "Polling"
    /\ \A t \in 1..(task_idx - 1) : jobState[t] \in TerminalStates

\* C16: a task whose output was fetched is being analyzed or evaluated, or has
\* an evaluation outcome and a record whose analysis is either a set of
\* measurements or a record with an error marker; the analyzer never ends the run.
C16_FetchedIsEvaluated ==
    fetched # {} =>
        LET ev == Evaluated
        IN \A t \in 1..task_idx :
               LocalFile(t) \in fetched =>
                   \/ t = task_idx /\ pc \in {"analyze", "evaluate"}
                   \/ /\ jobState[t] \in {"Passed", "Failed"}
                      /\ \E i \in 1..Len(ev) :
                            /\ TaskOf(ev[i]) = t
                            /\ \/ Has(ev[i].file_result.analysis, "error")
                               \/ Has(ev[i].file_result.analysis, "bitrate_avg")

\* the analyzer failed on the first task and the run went on to evaluate the second
C16_RunGoesOnAfterAnalyzerError ==
    /\ pc = "done"
    /\ Len(Evaluated) >= 2
    /\ TaskOf(Evaluated[1]) = 1
    /\ Has(Evaluated[1].file_result.analysis, "error")
    /\ TaskOf(Evaluated[2]) = 2

\* C19: an empty parameter mapping yields the single empty assignment, and a run
\* over it has one task per input file, task t being that of file t, each
\* submitted with a payload that is the template with only the two references
\* added.
C19_EmptyMappingOneAssignment ==
    (param_defs.keys = <<>> /\ pc # "start") =>
        /\ combinations = <<EmptyDict>>
        /\ ~dry_run =>
              /\ total_tasks = Len(files)
              /\ pc = "done" => task_idx = Len(files)
              /\ \A i \in 1..Len(submissions) :
                    /\ DOMAIN submissions[i].payload = DOMAIN Template \cup {"input", "output"}
                    /\ \A k \in DOMAIN Template : submissions[i].payload[k] = Template[k]
                    /\ submissions[i].payload["input"] = [uri |-> files[i]]
                    /\ submissions[i].payload["output"] = [uri |-> outputRef[i]]

\* a finished run over the empty mapping and two files, both submitted and evaluated
C19_TemplateRunOverTwoFiles ==
    /\ param_defs.keys = <<>>
    /\ pc = "done" /\ ~dry_run
    /\ Len(files) = 2
    /\ Len(submissions) = 2
    /\ \A t \in 1..2 : jobState[t] \in {"Passed", "Failed"}

\* C20: when some key has an empty list of alternatives there is no assignment
\* and nothing is run: no task is started, nothing is submitted, the run neither
\* aborts nor hangs, and it ends with a persisted summary of zero tasks, no
\* results and no best result.
C20_EmptyAlternativesNothingToRun ==
    ((\E k \in DOMAIN param_defs.vals : param_defs.vals[k].list /\ param_defs.vals[k].items = <<>>)
        /\ pc # "start") =>
        /\ combinations = <<>>
        /\ submissions = <<>> /\ task_idx = 0
        /\ \A t \in Tasks : jobState[t] = "NotStarted" /\ submits[t] = 0
        /\ pc \notin {"aborted", "hung"}
        /\ ~dry_run =>
              /\ total_tasks = 0
              /\ best_result = None
              /\ pc = "done" =>
                    /\ summary # None
                    /\ summary.total_tasks = 0
                    /\ summary.passed_tasks = 0
                    /\ summary.best = None
                    /\ summary.all_results = <<>>

\* a run over an empty list of alternatives and some input file has ended with
\* its summary persisted
C20_EmptyRunCompleted ==
    /\ \E k \in DOMAIN param_defs.vals : param_defs.vals[k].list /\ param_defs.vals[k].items = <<>>
    /\ files # <<>>
    /\ pc = "done" /\ ~dry_run
    /\ summary # None

\* the call under test has returned
Returned == call.returned

\* check_targets reported the metric m
IssueFor(m) == \E i \in 1..Len(call.result.issues) : call.result.issues[i].metric = m

\* the metric m is configured and was measured
Both(m) == Has(call.targets, m) /\ Has(call.analysis, m)

\* the measured m is further from its target than tolerated: by more than the
\* explicit tolerance when one is given, else by more than one part in parts
\* of the target
OutOfTolerance(m, tolkey, parts) ==
    LET d == Abs(call.analysis[m] - call.targets[m])
    IN IF Has(call.targets, tolkey) THEN d > call.targets[tolkey] ELSE parts * d > call.targets[m]

\* C13: for a two-sided metric present in targets and analysis, check_targets
\* reports the metric exactly when the distance to the target is greater than
\* the tolerance, the explicit one if given and else 5% of the target for the
\* bitrate and 10% for the I-frame size; a distance equal to the tolerance is
\* not reported.
C13_TwoSidedTolerance ==
    Returned =>
        /\ Both("bitrate_avg") =>
              (IssueFor("bitrate_avg") <=> OutOfTolerance("bitrate_avg", "bitrate_tolerance", 20))
        /\ Both("iframe_avg_size") =>
              (IssueFor("iframe_avg_size") <=> OutOfTolerance("iframe_avg_size", "iframe_tolerance", 10))

\* the bitrate is off by exactly the default 5% and the I-frame size by exactly
\* its explicit tolerance, and the check passes
C13_AtBoundaryPasses ==
    /\ Returned
    /\ Both("bitrate_avg") /\ ~Has(call.targets, "bitrate_tolerance")
    /\ 20 * Abs(call.analysis["bitrate_avg"] - call.targets["bitrate_avg"]) = call.targets["bitrate_avg"]
    /\ Both("iframe_avg_size") /\ Has(call.targets, "iframe_tolerance")
    /\ call.targets["iframe_tolerance"] > 0
    /\ Abs(call.analysis["iframe_avg_size"] - call.targets["iframe_avg_size"]) = call.targets["iframe_tolerance"]
    /\ call.result.passed /\ call.result.issues = <<>>

\* C14: for the peak bitrate ceiling, check_targets reports the metric exactly
\* when the measured peak is greater than the ceiling, whatever tolerances are
\* configured: a peak equal to the ceiling passes, one above it by 1 fails.
C14_CeilingOneSided ==
    (Returned /\ Both("bitrate_max")) =>
        (IssueFor("bitrate_max") <=> call.analysis["bitrate_max"] > call.targets["bitrate_max"])

\* a peak one above the ceiling fails although a bitrate tolerance of 2 is configured
C14_OneAboveCeilingFails ==
    /\ Returned /\ Both("bitrate_max")
    /\ call.analysis["bitrate_max"] = call.targets["bitrate_max"] + 1
    /\ Has(call.targets, "bitrate_tolerance") /\ call.targets["bitrate_tolerance"] = 2
    /\ IssueFor("bitrate_max") /\ ~call.result.passed

\* the metrics that are violated, each by its own rule
ViolatedMetrics ==
    {m \in {"bitrate_avg"} : Both(m) /\ OutOfTolerance(m, "bitrate_tolerance", 20)}
    \cup {m \in {"bitrate_max"} : Has(call.targets, m) /\ Get(call.analysis, m, 0) > call.targets[m]}
    \cup {m \in {"iframe_avg_size"} : Both(m) /\ OutOfTolerance(m, "iframe_tolerance", 10)}

\* C15: check_targets checks every configured metric: it returns one issue for
\* each violated metric and no other, and passed is true exactly when there is
\* no issue.
C15_AllViolationsReported ==
    Returned =>
        /\ Len(call.result.issues) = Cardinality(ViolatedMetrics)
        /\ \A m \in ViolatedMetrics : IssueFor(m)
        /\ call.result.passed <=> call.result.issues = <<>>

\* all three metrics are violated and reported
C15_ThreeIssues ==
    /\ Returned
    /\ Cardinality(ViolatedMetrics) = 3
    /\ Len(call.result.issues) = 3

\* the number of alternatives of key k in the mapping d, a scalar counting for one
Card(d, k) == IF d.vals[k].list THEN Len(d.vals[k].items) ELSE 1

\* the i-th alternative of key k in the mapping d
Alt(d, k, i) == IF d.vals[k].list THEN d.vals[k].items[i] ELSE d.vals[k].scalar

RECURSIVE ProdCard(_, _)
\* the product of the numbers of alternatives of the keys ks
ProdCard(d, ks) == IF ks = <<>> THEN 1 ELSE Card(d, Head(ks)) * ProdCard(d, Tail(ks))

\* C17: generate_param_combinations returns as many assignments as the product
\* of the numbers of alternatives of the keys, each a mapping over exactly the
\* keys, and no two of them equal.
C17_CountCompleteDistinct ==
    Returned =>
        LET d == call.param_defs
            r == call.result
        IN /\ Len(r) = ProdCard(d, d.keys)
           /\ \A i \in 1..Len(r) : DOMAIN r[i] = {d.keys[k] : k \in 1..Len(d.keys)}
           /\ \A i, j \in 1..Len(r) : r[i] = r[j] => i = j

\* every list of alternatives of the mapping d names each value once
DistinctAlternatives(d) ==
    \A k \in DOMAIN d.vals :
        d.vals[k].list =>
            \A i, j \in 1..Len(d.vals[k].items) : d.vals[k].items[i] = d.vals[k].items[j] => i = j

\* C17, amended: generate_param_combinations returns as many assignments as the
\* product of the numbers of alternatives of the keys, each a mapping over
\* exactly the keys; no two of them are equal when no list of alternatives
\* repeats a value.
C17_DistinctWhenAlternativesDistinct ==
    Returned =>
        LET d == call.param_defs
            r == call.result
        IN /\ Len(r) = ProdCard(d, d.keys)
           /\ \A i \in 1..Len(r) : DOMAIN r[i] = {d.keys[k] : k \in 1..Len(d.keys)}
           /\ DistinctAlternatives(d) => \A i, j \in 1..Len(r) : r[i] = r[j] => i = j

\* a list of two different alternatives and a scalar give two different assignments
C17_TwoByOne ==
    /\ Returned
    /\ Len(call.param_defs.keys) = 2
    /\ Card(call.param_defs, call.param_defs.keys[1]) = 2
    /\ ~call.param_defs.vals[call.param_defs.keys[2]].list
    /\ DistinctAlternatives(call.param_defs)
    /\ Len(call.result) = 2
    /\ call.result[1] # call.result[2]

\* C18: the assignments come in product order, the last declared key varying
\* fastest and the first slowest: the assignment at index i gives to the k-th
\* key its alternative number ((i - 1) div s) mod c + 1, c being the number of
\* alternatives of the key and s the product of those of the keys after it; so
\* the mapping alone determines the assignment found at each index.
C18_ProductOrder ==
    Returned =>
        LET d == call.param_defs
            r == call.result
            n == Len(d.keys)
        IN /\ Len(r) = ProdCard(d, d.keys)
           /\ \A i \in 1..Len(r) : \A k \in 1..n :
                 r[i][d.keys[k]] =
                     Alt(d, d.keys[k],
                         (((i - 1) \div ProdCard(d, SubSeq(d.keys, k + 1, n))) % Card(d, d.keys[k])) + 1)

\* two keys of two different alternatives each: the second assignment differs
\* from the first in the last key only, the third in the first key
C18_LastKeyFastest ==
    /\ Returned
    /\ Len(call.param_defs.keys) = 2
    /\ \A k \in 1..2 : /\ Card(call.param_defs, call.param_defs.keys[k]) = 2
                       /\ Alt(call.param_defs, call.param_defs.keys[k], 1)
                              # Alt(call.param_defs, call.param_defs.keys[k], 2)
    /\ Len(call.result) = 4
    /\ call.result[2][call.param_defs.keys[1]] = call.result[1][call.param_defs.keys[1]]
    /\ call.result[2][call.param_defs.keys[2]] # call.result[1][call.param_defs.keys[2]]
    /\ call.result[3][call.param_defs.keys[1]] # call.result[1][call.param_defs.keys[1]]

RECURSIVE Reach(_, _)
\* the dict objects reachable from the value v
Reach(h, v) ==
    IF v.t # "dict" THEN {}
    ELSE {v.v} \cup UNION {Reach(h, h[v.v][k]) : k \in DOMAIN h[v.v]}

\* C21: whatever payloads have been built, the template is structurally what
\* it was before the first of them, and no dict object is part of two payloads
\* or of a payload and the template.
C21_TemplateUntouched ==
    /\ Struct(call.heap, call.template) = call.original
    /\ \A i \in 1..Len(call.payloads) :
          /\ Reach(call.heap, call.payloads[i]) \cap Reach(call.heap, call.template) = {}
          /\ \A j \in 1..Len(call.payloads) :
                i # j => Reach(call.heap, call.payloads[i]) \cap Reach(call.heap, call.payloads[j]) = {}

\* two payloads were built from the nested template, with different values
\* injected under its inner dict
C21_TwoPayloadsBuilt ==
    /\ Len(call.payloads) = 2
    /\ "encoder" \in DOMAIN call.original.v
    /\ call.original.v["encoder"].t = "document"
    /\ \A i \in 1..2 : "encoder.bitrate" \in DOMAIN call.assigns[i].vals
    /\ call.assigns[1].vals["encoder.bitrate"] # call.assigns[2].vals["encoder.bitrate"]
    /\ \A i \in 1..2 :
          GetNested(call.heap, call.payloads[i], "encoder.bitrate", NoneV)
              = IntV(call.assigns[i].vals["encoder.bitrate"])

\* C22: every injection returns, and every path of the assignment read back
\* from its result gives the value of the assignment.
C22_RoundTrip ==
    \A i \in 1..Len(call.reads) :
        /\ call.reads[i].ok
        /\ \A path \in DOMAIN call.assigns[i].vals :
              call.reads[i].got[path] = IntV(call.assigns[i].vals[path])

\* C23: no payload construction fails: a segment that holds a value that is not
\* a mapping is overwritten.
C23_CollisionOverwritten == ~call.raised

\* C24: when the run configuration, the template or the file list is missing,
\* the run is aborted before any task: no job is submitted and neither the run
\* directory nor a summary is written.
C24_LoadFailureAborts ==
    (~call.config \/ ~call.template \/ ~call.files) =>
        /\ submissions = <<>>
        /\ ~run_dir
        /\ summary = None

\* C26: when the caller has interrupted the run while a task was under way,
\* the results of the tasks already completed and the state of the interrupted
\* one are on record: a summary has been written.
C26_ShutdownRecorded ==
    pc = "interrupted" => summary # None

\* the tasks whose evaluation passed
PassedTasks == {t \in Tasks : jobState[t] = "Passed"}

\* the scenario of C25: alternatives 2000 and 3000 for encoder.bitrate, one
\* file, target 2900 +- 100, and the two tasks analysed at 2950 and at 2000
C25_Scenario ==
    /\ param_defs.keys = <<"encoder.bitrate">>
    /\ param_defs.vals["encoder.bitrate"] = ListVal(<<2000, 3000>>)
    /\ Len(files) = 1
    /\ targets = [bitrate_avg |-> 2900, bitrate_tolerance |-> 100]
    /\ LET ev == Flatten(summary.all_results)
       IN /\ Len(ev) = 2
          /\ {ev[i].file_result.analysis : i \in 1..2} = {AnalysisOf(2950), AnalysisOf(2000)}

\* C25: in the persisted summary total_tasks is the number of assignments times
\* the number of files and passed_tasks is the number of tasks whose evaluation
\* passed; in the scenario there are two tasks, the one analysed at 2000 failed
\* with exactly one issue, the best result is the task analysed at 2950 and
\* passed_tasks is 1.
C25_SummaryCounts ==
    summary # None =>
        /\ summary.total_tasks = Len(generate_param_combinations(param_defs)) * Len(files)
        /\ summary.passed_tasks = Cardinality(PassedTasks)
        /\ C25_Scenario =>
              LET ev == Flatten(summary.all_results)
              IN /\ summary.total_tasks = 2
                 /\ \A i \in 1..2 :
                       ev[i].file_result.analysis = AnalysisOf(2000) =>
                           ~ev[i].file_result.passed /\ Len(ev[i].file_result.issues) = 1
                 /\ summary.best # None
                 /\ summary.best.file_result.analysis = AnalysisOf(2950)
                 /\ summary.best.file_result.passed
                 /\ summary.passed_tasks = 1

\* the summary of the scenario has been written
C25_ScenarioRun == summary # None /\ C25_Scenario

\* the metrics a target mapping names
NamedMetrics(tg) == DOMAIN tg \cap {"bitrate_avg", "bitrate_max", "iframe_avg_size"}

\* C27: an evaluated task whose analysis record has none of the metrics the
\* targets name has passed with no issue, is counted in passed_tasks and, when
\* its record has no bitrate_avg, holds the best register only with the score
\* |0 - target bitrate_avg| and never while the register is empty or holds a
\* greater score.
C27_ErroredAnalysisPasses ==
    LET ev == Evaluated
        bare == {i \in 1..Len(ev) : NamedMetrics(targets) \cap DOMAIN ev[i].file_result.analysis = {}}
        goal == Abs(0 - Get(targets, "bitrate_avg", 0))
    IN /\ \A i \in bare :
             /\ ev[i].file_result.passed
             /\ ev[i].file_result.issues = <<>>
             /\ jobState[TaskOf(ev[i])] = "Passed"
             /\ ~Has(ev[i].file_result.analysis, "bitrate_avg") =>
                    best_result # None /\ best_score # Inf /\ best_score <= goal
       /\ (best_result # None /\ ~Has(best_result.file_result.analysis, "bitrate_avg")) =>
             best_score = goal
       /\ summary # None => summary.passed_tasks >= Cardinality(bare)

\* the summary names as best a task whose analysis failed, another task having
\* been analysed and rejected
C27_ErroredAnalysisIsBest ==
    /\ summary # None /\ summary.best # None
    /\ summary.best.file_result.analysis = AnalysisError
    /\ summary.passed_tasks = 1
    /\ targets = [bitrate_avg |-> 2900, bitrate_tolerance |-> 100]
    /\ \E t \in Tasks : jobState[t] = "Failed"

\* C28: the best register is set exactly when some task has passed, and a
\* persisted summary has a best result exactly when its passed_tasks is at
\* least 1.
C28_BestIffPassed ==
    /\ (best_result # None) <=> (PassedTasks # {})
    /\ summary # None => ((summary.best # None) <=> (summary.passed_tasks >= 1))

\* a summary with a best result, two tasks having passed
C28_BestSet ==
    /\ summary # None /\ summary.best # None /\ summary.passed_tasks = 2

\* C29: in a dry run no job is submitted, nothing is probed, fetched or
\* analysed, no notification is sent and neither the run directory, a task's
\* payload file nor the summary is written.
C29_DryRunNoEffect ==
    dry_run =>
        /\ submissions = <<>>
        /\ \A t \in Tasks : submits[t] = 0 /\ ops[t] = {} /\ jobState[t] = "NotStarted"
        /\ fetched = {}
        /\ notifications = <<>> /\ metric_calls = <<>>
        /\ ~run_dir
        /\ summary = None

\* a dry run over a matrix of two assignments has returned
C29_DryRunReturned ==
    /\ dry_run /\ pc = "done"
    /\ Len(combinations) = 2 /\ files # <<>>

====
